---------------------------- MODULE Spec2Model ----------------------------
(***************************************************************************)
(* Model of the heatmap chat backend: OllamaService (check_health,         *)
(* build_system_prompt, generate_response), DataExporter                   *)
(* (get_context_summary, export_to_json), the routes send_message and      *)
(* get_context with their request models, the route check_health, and the *)
(* service getters.                                                        *)
(*                                                                         *)
(* Conventions.                                                            *)
(*  - A Python float is a record [nan, mant, exp]: NaN, or the binary64    *)
(*    value mant * 2^exp.  Cells of the data frame are floats.             *)
(*  - The day types "平日" / "假日" are written "weekday" / "weekend".     *)
(*  - Each entry point has its own specification (SpecChat, SpecHealth,    *)
(*    SpecRank, SpecDur, SpecDemog, SpecRoute, SpecSingleton); the         *)
(*    variables of the other entry points keep their initial values.       *)
(***************************************************************************)
EXTENDS Integers, Sequences, FiniteSets, TLC

VARIABLES
    model,          \* OllamaService.model, the configured model name
    engine,         \* behaviour of the Ollama server behind client.list()
    health,         \* what check_health returned
    request,        \* arguments of generate_response
    pc,             \* position inside generate_response
    messages,       \* local variable `messages` of generate_response
    dispatched,     \* log of client.chat calls: <<[model, messages], ...>>
    chat_reply,     \* what client.chat answered
    gen_result,     \* how generate_response ended
    lookup_dict,    \* DataCache.lookup_dict: one entry at CachedKey, or none
    agg_key,        \* arguments (month, hour, day_type) of get_context_summary
    summary,        \* how get_context_summary ended
    http,           \* the HTTP request a route is serving
    route_pc,       \* position inside the route handler
    http_response,  \* what the route answered
    instances,      \* the module globals _ollama_service and _data_exporter
    constructed,    \* how many times each service class was constructed
    callers         \* threads inside get_ollama_service / get_data_exporter

vars == <<model, engine, health, request, pc, messages, dispatched,
          chat_reply, gen_result, lookup_dict, agg_key, summary,
          http, route_pc, http_response, instances, constructed, callers>>

chatVars   == <<request, pc, messages, dispatched, chat_reply, gen_result>>
healthVars == <<engine, health>>
aggVars    == <<lookup_dict, agg_key, summary>>
routeVars  == <<http, route_pc, http_response>>
singletonVars == <<instances, constructed, callers>>

(***************************************************************************)
(* Bounds of the model.                                                    *)
(***************************************************************************)
MaxHistory == 22
MaxTokens == 2
MaxManifest == 2
MaxRankRows == 6
MaxDurRows == 2
MaxDemogRows == 2

(***************************************************************************)
(* Program constants.                                                      *)
(***************************************************************************)
HistoryWindow == 20
TopN == 5

Min(a, b) == IF a < b THEN a ELSE b

(***************************************************************************)
(* Floats.  A Python float is an IEEE 754 binary64 number: NaN, or         *)
(* mant * 2^exp with mant below 2^53.  mant is a natural number written    *)
(* as a sequence of limbs in base 2^15, lowest limb first, without leading *)
(* zero limbs (<<>> is 0); it is kept odd, so that equal numbers are equal *)
(* records.  The data is non-negative and far from the limits of the       *)
(* exponent, so there is neither a sign nor an infinity nor a subnormal.   *)
(* Every operation rounds its exact result to the nearest float, ties to   *)
(* the even mantissa.                                                      *)
(***************************************************************************)
LimbBits == 15
LimbBase == 32768
MantissaBits == 53

RECURSIVE Pow2(_)
Pow2(k) == IF k = 0 THEN 1 ELSE 2 * Pow2(k - 1)

\* The number of bits of n.
RECURSIVE IntBits(_)
IntBits(n) == IF n = 0 THEN 0 ELSE 1 + IntBits(n \div 2)

RECURSIVE NatToBig(_)
NatToBig(n) == IF n = 0 THEN <<>> ELSE <<n % LimbBase>> \o NatToBig(n \div LimbBase)

RECURSIVE BigToNat(_)
BigToNat(a) == IF a = <<>> THEN 0 ELSE Head(a) + LimbBase * BigToNat(Tail(a))

RECURSIVE Trim(_)
Trim(a) ==
    IF a = <<>> THEN <<>>
    ELSE IF a[Len(a)] = 0 THEN Trim(SubSeq(a, 1, Len(a) - 1)) ELSE a

Limb(a, i) == IF i <= Len(a) THEN a[i] ELSE 0

Zeros(n) == [i \in 1..n |-> 0]

\* a + b, limb by limb from limb i on with carry c.
BigAdd(a, b) ==
    LET RECURSIVE AddFrom(_, _)
        AddFrom(i, c) ==
            IF i > Len(a) /\ i > Len(b) THEN (IF c = 0 THEN <<>> ELSE <<c>>)
            ELSE LET t == Limb(a, i) + Limb(b, i) + c
                 IN <<t % LimbBase>> \o AddFrom(i + 1, t \div LimbBase)
    IN Trim(AddFrom(1, 0))

\* a - b for a >= b, limb by limb from limb i on with a borrow.
BigSub(a, b) ==
    LET RECURSIVE SubFrom(_, _)
        SubFrom(i, borrow) ==
            IF i > Len(a) THEN <<>>
            ELSE LET t == a[i] - Limb(b, i) - borrow
                 IN <<IF t < 0 THEN t + LimbBase ELSE t>>
                       \o SubFrom(i + 1, IF t < 0 THEN 1 ELSE 0)
    IN Trim(SubFrom(1, 0))

\* The sign of a - b.
BigCmp(a, b) ==
    LET RECURSIVE CmpFrom(_)
        CmpFrom(i) ==
            IF i = 0 THEN 0
            ELSE IF a[i] > b[i] THEN 1
            ELSE IF a[i] < b[i] THEN -1
            ELSE CmpFrom(i - 1)
    IN IF Len(a) > Len(b) THEN 1
       ELSE IF Len(a) < Len(b) THEN -1
       ELSE CmpFrom(Len(a))

\* a * k for a limb k.
BigMulSmall(a, k) ==
    LET RECURSIVE MulSmallFrom(_, _)
        MulSmallFrom(i, c) ==
            IF i > Len(a) THEN NatToBig(c)
            ELSE LET t == a[i] * k + c
                 IN <<t % LimbBase>> \o MulSmallFrom(i + 1, t \div LimbBase)
    IN IF k = 0 THEN <<>> ELSE MulSmallFrom(1, 0)

\* a * b, one limb of b at a time.
BigMul(a, b) ==
    LET RECURSIVE MulFrom(_)
        MulFrom(j) ==
            IF j > Len(b) THEN <<>>
            ELSE BigAdd(Zeros(j - 1) \o BigMulSmall(a, b[j]), MulFrom(j + 1))
    IN IF a = <<>> THEN <<>> ELSE Trim(MulFrom(1))

BitLen(a) == IF a = <<>> THEN 0 ELSE LimbBits * (Len(a) - 1) + IntBits(a[Len(a)])

\* Bit number i of a, the lowest bit being number 0.
Bit(a, i) == (Limb(a, i \div LimbBits + 1) \div Pow2(i % LimbBits)) % 2

\* a * 2^s
ShiftLeft(a, s) ==
    IF a = <<>> \/ s = 0 THEN a
    ELSE Zeros(s \div LimbBits) \o BigMulSmall(a, Pow2(s % LimbBits))

\* a \div k for a limb k: the limbs i down to 1, r the remainder so far.
RECURSIVE DivSmallFrom(_, _, _, _)
DivSmallFrom(a, k, i, r) ==
    IF i = 0 THEN <<>>
    ELSE LET t == r * LimbBase + a[i]
         IN Append(DivSmallFrom(a, k, i - 1, t % k), t \div k)

\* a \div 2^s
ShiftRight(a, s) ==
    IF s = 0 THEN a
    ELSE LET w == s \div LimbBits
             high == IF w >= Len(a) THEN <<>> ELSE SubSeq(a, w + 1, Len(a))
         IN Trim(DivSmallFrom(high, Pow2(s % LimbBits), Len(high), 0))

\* The number of zero bits at the low end of a (a # 0), counted from bit i.
RECURSIVE TrailingZeros(_, _)
TrailingZeros(a, i) == IF Bit(a, i) = 1 THEN i ELSE TrailingZeros(a, i + 1)

\* Quotient and remainder of a by b (b # 0).  Short division when b is one
\* limb; else long division, one limb of the quotient at a time from the
\* top: DivFrom(i) divides the limbs i.. of a, and Digit(r, lo, hi) is the
\* largest d in lo..hi-1 with d * b <= r, given lo * b <= r < hi * b.
BigDivMod(a, b) ==
    LET RECURSIVE Digit(_, _, _)
        Digit(r, lo, hi) ==
            IF hi - lo = 1 THEN lo
            ELSE LET mid == (lo + hi) \div 2
                 IN IF BigCmp(BigMulSmall(b, mid), r) <= 0
                    THEN Digit(r, mid, hi)
                    ELSE Digit(r, lo, mid)
        RECURSIVE DivFrom(_)
        DivFrom(i) ==
            IF i > Len(a) THEN [q |-> <<>>, r |-> <<>>]
            ELSE LET p == DivFrom(i + 1)
                     r2 == Trim(<<a[i]>> \o p.r)
                     d == Digit(r2, 0, LimbBase)
                 IN [q |-> Trim(<<d>> \o p.q), r |-> BigSub(r2, BigMulSmall(b, d))]
    IN IF Len(b) = 1
       THEN LET q == Trim(DivSmallFrom(a, b[1], Len(a), 0))
            IN [q |-> q, r |-> BigSub(a, BigMulSmall(q, b[1]))]
       ELSE DivFrom(1)

NaN == [nan |-> TRUE, mant |-> <<>>, exp |-> 0]

\* The float mant * 2^exp for a mantissa that fits: the mantissa is made odd.
Normal(m, e) ==
    IF m = <<>> THEN [nan |-> FALSE, mant |-> <<>>, exp |-> 0]
    ELSE LET tz == TrailingZeros(m, 0)
         IN [nan |-> FALSE, mant |-> ShiftRight(m, tz), exp |-> e + tz]

\* The float nearest to the exact value m * 2^e (plus a positive amount
\* below 2^e when sticky), ties to even; sticky comes with at least 55 bits.
Round(m, e, sticky) ==
    LET n == BitLen(m)
        r == n - MantissaBits
    IN IF r <= 0 THEN Normal(m, e)
       ELSE LET kept == ShiftRight(m, r)
                half == Bit(m, r - 1) = 1
                rest == sticky \/ ShiftLeft(ShiftRight(m, r - 1), r - 1) # m
                up == half /\ (rest \/ Bit(kept, 0) = 1)
            IN Normal(IF up THEN BigAdd(kept, <<1>>) ELSE kept, e + r)

\* float(n) for an int n >= 0.
Fl(n) == Normal(NatToBig(n), 0)

IsNaN(x) == x.nan

\* The value of a float that is a whole number.
IntValue(x) == BigToNat(x.mant) * Pow2(x.exp)

\* x + y
FAdd(x, y) ==
    IF x.nan \/ y.nan THEN NaN
    ELSE LET e == Min(x.exp, y.exp)
         IN Round(BigAdd(ShiftLeft(x.mant, x.exp - e), ShiftLeft(y.mant, y.exp - e)),
                  e, FALSE)

\* x * y
FMul(x, y) ==
    IF x.nan \/ y.nan THEN NaN
    ELSE Round(BigMul(x.mant, y.mant), x.exp + y.exp, FALSE)

\* x / y.  The data is non-negative, so a zero divisor only ever meets a
\* zero dividend, and 0.0 / 0.0 is NaN.  The quotient is computed to 55 bits
\* and more, the remainder being the sticky part.
FDiv(x, y) ==
    IF x.nan \/ y.nan \/ y.mant = <<>> THEN NaN
    ELSE IF x.mant = <<>> THEN Fl(0)
    ELSE LET s == MantissaBits + 2 + BitLen(y.mant) - BitLen(x.mant)
             d == BigDivMod(ShiftLeft(x.mant, s), y.mant)
         IN Round(d.q, x.exp - y.exp - s, d.r # <<>>)

\* float(n) / float(d)
Rat(n, d) == FDiv(Fl(n), Fl(d))

\* x > y; every comparison with NaN is false.
FGt(x, y) ==
    /\ ~x.nan
    /\ ~y.nan
    /\ LET e == Min(x.exp, y.exp)
       IN BigCmp(ShiftLeft(x.mant, x.exp - e), ShiftLeft(y.mant, y.exp - e)) > 0

\* pandas Series.sum(): the cells are added in order, NaN cells are
\* skipped; the sum of nothing is 0.0.
RECURSIVE SeriesSum(_)
SeriesSum(s) ==
    IF s = <<>> THEN Fl(0)
    ELSE LET n == Len(s)
             rest == SeriesSum(SubSeq(s, 1, n - 1))
         IN IF s[n].nan THEN rest ELSE FAdd(rest, s[n])


(***************************************************************************)
(* DataCache frames.  A frame is [columns, rows]; a row maps each column   *)
(* of the frame to its cell: a float, except for the key columns (month,   *)
(* hour: int, day_type: str) and the grid columns (gx, gy: int).           *)
(***************************************************************************)
DurationCols == {"avg_users_under_10min", "avg_users_10_30min", "avg_users_over_30min"}

AgeCols == {"age_1", "age_2", "age_3", "age_4", "age_5",
            "age_6", "age_7", "age_8", "age_9", "age_other"}

\* Columns get_context_summary reads without asking whether they exist.
RequiredCols == {"lat", "avg_total_users", "sex_1", "sex_2"}

\* The key and grid columns, which hold ints and a string.
KeyCols == {"month", "hour", "day_type", "gx", "gy"}

\* The i-th value of a column, and a whole column as a series.
Series(df, col) == [i \in 1..Len(df.rows) |-> df.rows[i][col]]

\* Element-wise series * ndarray.
SeriesMul(s, w) == [i \in 1..Len(s) |-> FMul(s[i], w[i])]

\* lookup_dict.get(key): <<frame>> when the key is cached, <<>> for None.
DictGet(dict, key) == IF key \in DOMAIN dict THEN <<dict[key]>> ELSE <<>>

\* filtered_df is None or filtered_df.empty
NoneOrEmpty(filtered) == filtered = <<>> \/ Len(filtered[1].rows) = 0

\* The summary returned for a missing or empty frame.
EmptySummary ==
    [total_records |-> 0,
     total_users |-> Fl(0),
     duration_distribution |->
        [under_10min |-> Fl(0), min_10_30 |-> Fl(0), over_30min |-> Fl(0)],
     gender_distribution |-> [male_pct |-> Fl(0), female_pct |-> Fl(0)],
     age_distribution |-> [c \in AgeCols |-> Fl(0)],
     top_locations |-> <<>>]

\* A sum that does not skip NaN (numpy's sum over .values).
RECURSIVE SumWithNaN(_)
SumWithNaN(s) == IF s = <<>> THEN Fl(0) ELSE FAdd(Head(s), SumWithNaN(Tail(s)))

\* Mutant of ColumnTotal: the sum does not skip NaN.
ColumnTotalWithNaN(df, col) ==
    IF col \in df.columns THEN SumWithNaN(Series(df, col)) ELSE Fl(0)

\* float(df[col].sum()) if col in df.columns else 0.0
ColumnTotal(df, col) ==
    IF col \in df.columns THEN SeriesSum(Series(df, col)) ELSE Fl(0)

\* Mutant of WeightedAverage: the plain mean of the column.
WeightedAverageUnweighted(df, col, weights, total_users) ==
    FDiv(SeriesSum(Series(df, col)), Fl(Len(df.rows)))

\* float((df[col] * weights).sum() / total_users)
WeightedAverage(df, col, weights, total_users) ==
    FDiv(SeriesSum(SeriesMul(Series(df, col), weights)), total_users)

\* The guarded weighted percentage of the sex_* columns (always present).
GenderPct(df, col, weights, total_users) ==
    IF FGt(total_users, Fl(0))
    THEN WeightedAverage(df, col, weights, total_users)
    ELSE Fl(0)

\* Mutant of AgePct: the weighted sum is divided by the row count.
AgePctByCount(df, col, weights, total_users) ==
    IF col \in df.columns /\ FGt(total_users, Fl(0))
    THEN FDiv(SeriesSum(SeriesMul(Series(df, col), weights)), Fl(Len(df.rows)))
    ELSE Fl(0)

\* The guarded weighted percentage of an age column.
AgePct(df, col, weights, total_users) ==
    IF col \in df.columns /\ FGt(total_users, Fl(0))
    THEN WeightedAverage(df, col, weights, total_users)
    ELSE Fl(0)

\* Stable insertion of index i into the index list s, which is sorted by
\* descending value: i goes behind every index whose value is not smaller.
RECURSIVE InsertDescending(_, _, _)
InsertDescending(s, i, v) ==
    IF s = <<>> THEN <<i>>
    ELSE IF FGt(v[i], v[Head(s)]) THEN <<i>> \o s
         ELSE <<Head(s)>> \o InsertDescending(Tail(s), i, v)

\* Indices 1..k without NaN value, by descending value, ties in row order:
\* argsort(kind="mergesort") of the negated values.
RECURSIVE SortedValid(_, _)
SortedValid(k, v) ==
    IF k = 0 THEN <<>>
    ELSE IF v[k].nan THEN SortedValid(k - 1, v)
         ELSE InsertDescending(SortedValid(k - 1, v), k, v)

\* Every way to put index i into the index list s, sorted by descending
\* value, that leaves the list sorted: among equal values at any place.
RECURSIVE Insertions(_, _, _)
Insertions(s, i, v) ==
    IF s = <<>> THEN {<<i>>}
    ELSE (IF FGt(v[Head(s)], v[i]) THEN {} ELSE {<<i>> \o s})
         \cup (IF FGt(v[i], v[Head(s)]) THEN {}
               ELSE {<<Head(s)>> \o t : t \in Insertions(Tail(s), i, v)})

\* sort_values(ascending=False) with its default kind="quicksort", which is
\* not a stable sort: the indices 1..k without NaN value by descending
\* value, equal values in any order.
RECURSIVE DescendingOrders(_, _)
DescendingOrders(k, v) ==
    IF k = 0 THEN {<<>>}
    ELSE IF v[k].nan THEN DescendingOrders(k - 1, v)
         ELSE UNION {Insertions(s, k, v) : s \in DescendingOrders(k - 1, v)}

\* Indices 1..k whose value is NaN, in row order.
RECURSIVE NaNIndices(_, _)
NaNIndices(k, v) ==
    IF k = 0 THEN <<>>
    ELSE IF v[k].nan THEN Append(NaNIndices(k - 1, v), k)
         ELSE NaNIndices(k - 1, v)

\* df.nlargest(n, col) with keep='first': the row indices it can return.
\* pandas is not part of the repository and no version of it is fixed, so
\* the call stands for what the library does in any version:
\*  - a frame of more than n rows takes the selection path, a stable
\*    argsort of the values that reach the n-th largest: descending, ties in
\*    row order;
\*  - a frame of at most n rows is sorted whole by sort_values, whose tie
\*    order is not determined;
\*  - the rows without a value come last in row order, or (versions that
\*    select among the dropna() values only) are left out.
nlargest(n, df, col) ==
    LET v == Series(df, col)
        valid == IF n >= Len(v) THEN DescendingOrders(Len(v), v)
                 ELSE {SortedValid(Len(v), v)}
        nans == {NaNIndices(Len(v), v), <<>>}
    IN {SubSeq(o \o t, 1, Min(n, Len(o \o t))) : o \in valid, t \in nans}

\* row.get(col, 0)
RowGet(row, col, default) == IF col \in DOMAIN row THEN row[col] ELSE default

\* One entry of top_locations.
TopLocation(row, lng_col) ==
    ("10_30min" :> RowGet(row, "avg_users_10_30min", Fl(0))) @@
    [lat |-> row["lat"],
     lon |-> row[lng_col],
     total_users |-> row["avg_total_users"],
     under_10min |-> RowGet(row, "avg_users_under_10min", Fl(0)),
     over_30min |-> RowGet(row, "avg_users_over_30min", Fl(0))]

\* The body of get_context_summary below the empty-frame return: the
\* summaries it can return, one for each result top_5 of the nlargest call.
Summarize(df) ==
    LET lng_col == IF "lng" \in df.columns THEN "lng" ELSE "lon"
        total_users == SeriesSum(Series(df, "avg_total_users"))
        weights == Series(df, "avg_total_users")
        duration_distribution ==
           [under_10min |-> ColumnTotal(df, "avg_users_under_10min"),
            min_10_30 |-> ColumnTotal(df, "avg_users_10_30min"),
            over_30min |-> ColumnTotal(df, "avg_users_over_30min")]
        gender_distribution ==
           [male_pct |-> GenderPct(df, "sex_1", weights, total_users),
            female_pct |-> GenderPct(df, "sex_2", weights, total_users)]
        age_distribution ==
           [c \in AgeCols |-> AgePct(df, c, weights, total_users)]
    IN {[total_records |-> Len(df.rows),
         total_users |-> total_users,
         duration_distribution |-> duration_distribution,
         gender_distribution |-> gender_distribution,
         age_distribution |-> age_distribution,
         top_locations |->
            [k \in 1..Len(top_5) |-> TopLocation(df.rows[top_5[k]], lng_col)]] :
        top_5 \in nlargest(TopN, df, "avg_total_users")}

\* Mutant of ContextSummary: no early return; a missing key (None) fails at
\* the first use of the frame.
ContextSummaryNoEarlyReturn(dict, key) ==
    LET filtered_df == DictGet(dict, key)
    IN IF filtered_df = <<>>
       THEN {[outcome |-> "raised", value |-> EmptySummary]}
       ELSE {[outcome |-> "returned", value |-> sm] : sm \in Summarize(filtered_df[1])}

\* DataExporter.get_context_summary for a cache and a key: the results the
\* call can have.
ContextSummary(dict, key) ==
    LET filtered_df == DictGet(dict, key)
    IN IF NoneOrEmpty(filtered_df)
       THEN {[outcome |-> "returned", value |-> EmptySummary]}
       ELSE {[outcome |-> "returned", value |-> sm] : sm \in Summarize(filtered_df[1])}

NotCalledSummary == [outcome |-> "not_called", value |-> EmptySummary]

\* The handler: one call of get_context_summary(month, hour, day_type).
get_context_summary(month, hour, day_type) ==
    /\ summary.outcome = "not_called"
    /\ agg_key' = <<month, hour, day_type>>
    /\ summary' \in ContextSummary(lookup_dict, <<month, hour, day_type>>)
    /\ UNCHANGED <<model, lookup_dict, healthVars, chatVars,
                 routeVars, singletonVars>>


(***************************************************************************)
(* Cache contents the aggregation is checked on.                           *)
(***************************************************************************)
CachedKey == <<202412, 8, "weekday">>
OtherKey == <<202412, 9, "weekend">>
QueryKeys == {CachedKey, OtherKey}

\* All sequences over S of length 0..n.
SeqUpTo(S, n) == UNION {[1..k -> S] : k \in 0..n}

\* Row number i of a frame with columns cols: coordinates that identify the
\* row, and the cells given by spec = <<total_users, <<dwell buckets>>,
\* <<sex_1, sex_2>>, [age column -> cell]>>.
MakeRow(cols, i, spec) ==
    [c \in cols |->
        CASE c = "lat" -> Fl(i)
          [] c \in {"lng", "lon"} -> Fl(100 + i)
          [] c = "month" -> CachedKey[1]
          [] c = "hour" -> CachedKey[2]
          [] c = "day_type" -> CachedKey[3]
          [] c \in {"gx", "gy"} -> i
          [] c = "avg_total_users" -> spec[1]
          [] c = "avg_users_under_10min" -> spec[2][1]
          [] c = "avg_users_10_30min" -> spec[2][2]
          [] c = "avg_users_over_30min" -> spec[2][3]
          [] c = "sex_1" -> spec[3][1]
          [] c = "sex_2" -> spec[3][2]
          [] OTHER -> spec[4][c]]

MakeFrame(cols, specs) ==
    [columns |-> cols, rows |-> [i \in 1..Len(specs) |-> MakeRow(cols, i, specs[i])]]

FullSchema(lng) == KeyCols \cup RequiredCols \cup {lng} \cup DurationCols \cup AgeCols

UniformAges == [c \in AgeCols |-> Fl(10)]
YoungAges == [c \in AgeCols |-> IF c = "age_2" THEN Fl(55) ELSE Fl(5)]
\* age_other missing: the remaining nine cells sum to 90.
HoleAges == [c \in AgeCols |-> IF c = "age_other" THEN NaN ELSE Fl(10)]

\* Ranking frames: up to MaxRankRows rows that differ in avg_total_users.
RankUsers == {NaN, Fl(0), Fl(1), Fl(2)}
RankRowSpecs ==
    {<<tu, <<tu, Fl(0), Fl(0)>>, <<Fl(60), Fl(40)>>, UniformAges>> : tu \in RankUsers}
RankSchemas == {FullSchema("lng") \ AgeCols, FullSchema("lon") \ AgeCols}
RankFrames ==
    {MakeFrame(cols, specs) : cols \in RankSchemas,
                              specs \in SeqUpTo(RankRowSpecs, MaxRankRows)}

\* Dwell-time frames: rows that differ in avg_total_users and the buckets.
DurUsers == {NaN, Fl(1), Fl(2)}
DurBuckets == {<<Fl(0), Fl(0), Fl(0)>>, <<Fl(1), Fl(0), Fl(0)>>, <<Fl(1), Fl(1), Fl(0)>>,
               <<NaN, Fl(0), Fl(1)>>, <<NaN, Fl(1), Fl(1)>>}
DurRowSpecs ==
    {<<tu, b, <<Fl(60), Fl(40)>>, UniformAges>> : tu \in DurUsers, b \in DurBuckets}
DurSchemas == {FullSchema("lng") \ AgeCols, FullSchema("lng") \ (AgeCols \cup DurationCols)}
DurFrames ==
    {MakeFrame(cols, specs) : cols \in DurSchemas,
                              specs \in SeqUpTo(DurRowSpecs, MaxDurRows)}

\* Demographic frames: rows that differ in weight, gender and age cells.
\* <<total_users, <<sex_1, sex_2>>, age cells>> of a row.
DemogCells ==
    {<<Fl(1), <<Fl(60), Fl(40)>>, YoungAges>>,   <<Fl(2), <<Fl(30), Fl(70)>>, UniformAges>>,
     <<Fl(1), <<Fl(60), Fl(40)>>, UniformAges>>, <<Fl(2), <<Fl(60), Fl(40)>>, YoungAges>>,
     <<Fl(0), <<Fl(60), Fl(40)>>, UniformAges>>, <<Fl(0), <<Fl(30), Fl(70)>>, YoungAges>>,
     <<NaN, <<Fl(60), Fl(40)>>, UniformAges>>,   <<NaN, <<Fl(30), Fl(70)>>, YoungAges>>,
     <<Fl(1), <<NaN, Fl(40)>>, UniformAges>>,    <<Fl(2), <<NaN, Fl(40)>>, HoleAges>>,
     <<Fl(1), <<Fl(30), Fl(70)>>, YoungAges>>,   <<Fl(2), <<Fl(30), Fl(70)>>, HoleAges>>}
DemogRowSpecs == {<<c[1], <<c[1], Fl(0), Fl(0)>>, c[2], c[3]>> : c \in DemogCells}
DemogSchemas == {FullSchema("lng"), FullSchema("lng") \ {"age_9", "age_other"}}
DemogFrames ==
    {MakeFrame(cols, specs) : cols \in DemogSchemas,
                              specs \in SeqUpTo(DemogRowSpecs, MaxDemogRows)}

\* The cache holds nothing, or one frame (possibly without rows) at CachedKey.
Caches(frames) == {<<>>} \cup {CachedKey :> f : f \in frames}


(***************************************************************************)
(* OllamaService.check_health                                              *)
(***************************************************************************)
ModelNames == {"qwen2.5:7b", "llama3:8b", "mistral:7b"}

NoError == "None"

\* How the server's manifest reaches the client: a ListResponse object (new
\* client), or a dict (old client) whose entries carry the identifier under
\* 'name', under 'model' or under both, or a dict without a 'models' key.
ListShapes == {"ListResponse", "dict_name", "dict_model", "dict_both", "dict_no_models"}

\* m.get(key, default) on a dict entry.
Get(m, key, default) == IF key \in DOMAIN m THEN m[key] ELSE default

\* What client.list() returns while the server is up.
ListReply(e) ==
    [kind |-> IF e.shape = "ListResponse" THEN "object" ELSE "dict",
     has_models |-> e.shape # "dict_no_models",
     models |->
        [i \in 1..Len(e.manifest) |->
            CASE e.shape = "dict_name" -> ("name" :> e.manifest[i])
              [] e.shape = "dict_both" ->
                    ("name" :> e.manifest[i]) @@ ("model" :> e.manifest[i])
              [] OTHER -> ("model" :> e.manifest[i])]]

\* Mutant of model_names: the dict branch reads 'name' only.
model_namesNameOnly(response) ==
    IF response.kind = "object"
    THEN [i \in 1..Len(response.models) |-> response.models[i]["model"]]
    ELSE LET models == IF response.has_models THEN response.models ELSE <<>>
         IN [i \in 1..Len(models) |-> Get(models[i], "name", "")]

\* model_names of check_health, for either response shape.
model_names(response) ==
    IF response.kind = "object"
    THEN [i \in 1..Len(response.models) |-> response.models[i]["model"]]
    ELSE LET models == IF response.has_models THEN response.models ELSE <<>>
         IN [i \in 1..Len(models) |->
                Get(models[i], "name", Get(models[i], "model", ""))]

Range(s) == {s[i] : i \in DOMAIN s}

\* The try block of check_health: the dict it returns, or the exception.
HealthTry(m, e) ==
    IF ~e.up
    THEN [raised |-> TRUE, value |-> <<>>]
    ELSE LET names == model_names(ListReply(e))
             model_loaded == m \in Range(names)
         IN [raised |-> FALSE,
             value |-> <<[status |-> IF model_loaded THEN "connected" ELSE "degraded",
                          model_loaded |-> model_loaded,
                          available_models |-> names,
                          error |-> IF model_loaded THEN NoError ELSE "model_not_found"]>>]

\* check_health: the try block, and the except branch for any exception.
HealthResult(m, e) ==
    LET try == HealthTry(m, e)
    IN IF try.raised
       THEN [status |-> "disconnected",
             model_loaded |-> FALSE,
             available_models |-> <<>>,
             error |-> "cannot_connect"]
       ELSE try.value[1]

NotCalledHealth ==
    [status |-> "not_called", model_loaded |-> FALSE,
     available_models |-> <<>>, error |-> NoError]

check_health ==
    /\ health.status = "not_called"
    /\ health' = HealthResult(model, engine)
    /\ UNCHANGED <<model, engine, chatVars, aggVars,
                 routeVars, singletonVars>>

(***************************************************************************)
(* OllamaService.generate_response                                         *)
(***************************************************************************)
\* A counter of the chat response: no such attribute / key, None, or an int.
Absent == [st |-> "absent", n |-> 0]
Unset == [st |-> "None", n |-> 0]
Cnt(n) == [st |-> "int", n |-> n]
Counts == {Cnt(n) : n \in 0..MaxTokens}

\* What client.chat can answer: an exception, a ChatResponse object (whose
\* counters default to None), or a dict decoded from the server's JSON.
ChatReplies ==
    {[kind |-> "error", content |-> "", eval_count |-> Absent, prompt_eval_count |-> Absent]}
    \cup {[kind |-> "object", content |-> "answer", eval_count |-> e, prompt_eval_count |-> p] :
            e \in {Absent, Unset} \cup Counts, p \in {Absent, Unset} \cup Counts}
    \cup {[kind |-> "dict", content |-> "answer", eval_count |-> e, prompt_eval_count |-> p] :
            e \in {Absent} \cup Counts, p \in {Absent} \cup Counts}

NoReply == [kind |-> "none", content |-> "", eval_count |-> Absent, prompt_eval_count |-> Absent]

\* build_system_prompt: the fixed template with the context's values in it.
build_system_prompt(data_context) ==
    "system_prompt " \o ToString(<<data_context.month, data_context.hour,
                                   data_context.day_type, data_context.summary>>)

\* Mutant of LastTurns: history[:20], the oldest turns instead of the newest.
LastTurnsOldest(history) == SubSeq(history, 1, Min(HistoryWindow, Len(history)))

\* history[-20:]
LastTurns(history) ==
    SubSeq(history, Len(history) - Min(HistoryWindow, Len(history)) + 1, Len(history))

\* Mutant of BuildMessages: the new user turn is appended twice.
BuildMessagesRepeatUser(user_message, data_context, history) ==
    <<[role |-> "system", content |-> build_system_prompt(data_context)]>>
    \o (IF history.turns # <<>> THEN LastTurns(history.turns) ELSE <<>>)
    \o <<[role |-> "user", content |-> user_message],
         [role |-> "user", content |-> user_message]>>

\* The message list of generate_response; history is <<>> for None or for
\* the empty list, which `if history:` treats alike.
BuildMessages(user_message, data_context, history) ==
    <<[role |-> "system", content |-> build_system_prompt(data_context)]>>
    \o (IF history.turns # <<>> THEN LastTurns(history.turns) ELSE <<>>)
    \o <<[role |-> "user", content |-> user_message]>>

\* A counter read from the response: hasattr / .get fall back to 0.
ReadCounter(c) == IF c.st = "absent" THEN Cnt(0) ELSE c

\* tokens_used; adding None raises TypeError.
TokensUsed(reply) ==
    LET e == ReadCounter(reply.eval_count)
        p == ReadCounter(reply.prompt_eval_count)
    IN IF e.st = "None" \/ p.st = "None"
       THEN [raised |-> TRUE, n |-> 0]
       ELSE [raised |-> FALSE, n |-> e.n + p.n]

PendingResult == [outcome |-> "pending", response |-> "", model |-> "", tokens_used |-> 0]

\* Lines 235-251: build the system prompt and the message list.
AssembleMessages ==
    /\ pc = "start"
    /\ messages' = BuildMessages(request.user_message, request.data_context, request.history)
    /\ pc' = "chat"
    /\ UNCHANGED <<model, request, dispatched, chat_reply, gen_result, healthVars, aggVars,
                 routeVars, singletonVars>>

\* Mutant of ChatCall: a failed call is attempted again.
ChatCallRetry ==
    /\ pc = "chat"
    /\ \E reply \in ChatReplies :
          /\ chat_reply' = reply
          /\ pc' = IF reply.kind = "error" THEN "chat" ELSE "normalize"
    /\ dispatched' = Append(dispatched, [model |-> model, messages |-> messages])
    /\ UNCHANGED <<model, request, messages, gen_result, healthVars, aggVars,
                 routeVars, singletonVars>>

\* Lines 253-257: the blocking client.chat call and the engine's answer.
ChatCall ==
    /\ pc = "chat"
    /\ \E reply \in ChatReplies :
          /\ chat_reply' = reply
          /\ pc' = IF reply.kind = "error" THEN "except" ELSE "normalize"
    /\ dispatched' = Append(dispatched, [model |-> model, messages |-> messages])
    /\ UNCHANGED <<model, request, messages, gen_result, healthVars, aggVars,
                 routeVars, singletonVars>>

\* Lines 259-277: collapse the response shape into the result dict.
Normalize ==
    /\ pc = "normalize"
    /\ LET tokens == TokensUsed(chat_reply)
       IN IF tokens.raised
          THEN /\ pc' = "except"
               /\ UNCHANGED gen_result
          ELSE /\ pc' = "done"
               /\ gen_result' = [outcome |-> "returned",
                                 response |-> chat_reply.content,
                                 model |-> model,
                                 tokens_used |-> tokens.n]
    /\ UNCHANGED <<model, request, messages, dispatched, chat_reply, healthVars, aggVars,
                 routeVars, singletonVars>>

\* Lines 279-281: any exception is logged and raised again, wrapped.
RaiseFailure ==
    /\ pc = "except"
    /\ pc' = "done"
    /\ gen_result' = [outcome |-> "raised", response |-> "", model |-> "", tokens_used |-> 0]
    /\ UNCHANGED <<model, request, messages, dispatched, chat_reply, healthVars, aggVars,
                 routeVars, singletonVars>>

(***************************************************************************)
(* Inputs of generate_response.                                            *)
(***************************************************************************)
UserMessages == {"which hour is busiest?", "how long do users stay?"}

DataContexts ==
    {[month |-> 202412, hour |-> h, day_type |-> "weekday", summary |-> EmptySummary] :
        h \in {8, 23}}

\* A history of n turns: roles alternate from `first`, the content of turn i
\* names its position.
MakeHistory(n, first) ==
    [i \in 1..n |->
        [role |-> IF i % 2 = 1 THEN first
                  ELSE IF first = "user" THEN "assistant" ELSE "user",
         content |-> "turn " \o ToString(i)]]

Histories ==
    {[given |-> FALSE, turns |-> <<>>]}
    \cup {[given |-> TRUE, turns |-> MakeHistory(n, first)] :
            n \in 0..MaxHistory, first \in {"user", "assistant"}}

Requests ==
    [user_message : UserMessages, data_context : DataContexts, history : Histories]

NoRequest ==
    [user_message |-> "", data_context |-> CHOOSE d \in DataContexts : d.hour = 8,
     history |-> [given |-> FALSE, turns |-> <<>>]]

(***************************************************************************)
(* The module globals and their getters: get_ollama_service and            *)
(* get_data_exporter.  An instance is named by its construction number;    *)
(* a global is <<>> for None or <<id>>.                                    *)
(***************************************************************************)
MaxCallers == 3

Services == {"ollama_service", "data_exporter"}

NoInstances == [s \in Services |-> <<>>]
NoneConstructed == [s \in Services |-> 0]

\* A getter run to its end without interruption, for each service in S: the
\* global is set to a new instance only if it is None.
instancesAfterGet(S) ==
    [s \in Services |->
        IF s \in S /\ instances[s] = <<>> THEN <<constructed[s] + 1>> ELSE instances[s]]

constructedAfterGet(S) ==
    [s \in Services |->
        IF s \in S /\ instances[s] = <<>> THEN constructed[s] + 1 ELSE constructed[s]]

\* A thread that is about to call a getter: made is the instance the thread
\* has constructed, got the one the getter returned to it.
Caller(s) == [service |-> s, pc |-> "check", made |-> <<>>, got |-> <<>>]
IdleCaller == [service |-> "ollama_service", pc |-> "idle", made |-> <<>>, got |-> <<>>]

\* `if _service is None:` read by thread t.
CheckNone(t) ==
    /\ callers[t].pc = "check"
    /\ callers' = [callers EXCEPT ![t].pc =
                      IF instances[callers[t].service] = <<>> THEN "construct" ELSE "return"]
    /\ UNCHANGED <<model, instances, constructed, healthVars, chatVars, aggVars, routeVars>>

\* The right-hand side of `_service = Service()` run by thread t: a new
\* instance is constructed; the global is not written yet.
Construct(t) ==
    /\ callers[t].pc = "construct"
    /\ LET s == callers[t].service
       IN /\ constructed' = [constructed EXCEPT ![s] = @ + 1]
          /\ callers' = [callers EXCEPT ![t].pc = "store",
                                        ![t].made = <<constructed[s] + 1>>]
    /\ UNCHANGED <<model, instances, healthVars, chatVars, aggVars, routeVars>>

\* The assignment of `_service = Service()` run by thread t: the instance the
\* thread constructed is stored in the global, whatever the global holds by
\* now.
StoreGlobal(t) ==
    /\ callers[t].pc = "store"
    /\ instances' = [instances EXCEPT ![callers[t].service] = callers[t].made]
    /\ callers' = [callers EXCEPT ![t].pc = "return"]
    /\ UNCHANGED <<model, constructed, healthVars, chatVars, aggVars, routeVars>>

\* `return _service` run by thread t: the global is read again.
ReturnGlobal(t) ==
    /\ callers[t].pc = "return"
    /\ callers' = [callers EXCEPT ![t].pc = "done",
                                  ![t].got = instances[callers[t].service]]
    /\ UNCHANGED <<model, instances, constructed, healthVars, chatVars, aggVars, routeVars>>

(***************************************************************************)
(* DataExporter.export_to_json                                             *)
(***************************************************************************)
SampleCap == 50

\* required_cols: the 23 fields of a record.
ExportCols == {"month", "gx", "gy", "lat", "lng", "hour", "day_type",
               "avg_total_users", "sex_1", "sex_2"} \cup DurationCols \cup AgeCols

\* filtered_df.rename(columns={'lon': 'lng'}) when there is no 'lng'.
RenameLon(df) ==
    IF "lng" \notin df.columns /\ "lon" \in df.columns
    THEN [columns |-> (df.columns \ {"lon"}) \cup {"lng"},
          rows |-> [i \in 1..Len(df.rows) |->
                      [c \in (df.columns \ {"lon"}) \cup {"lng"} |->
                          IF c = "lng" THEN df.rows[i]["lon"] ELSE df.rows[i][c]]]]
    ELSE df

\* One record: the required columns, a NaN cell replaced by 0.0; the cells
\* of the key and grid columns are ints and strings, never NaN.
ExportRecord(row) ==
    [c \in ExportCols |-> IF c \notin KeyCols /\ row[c].nan THEN Fl(0) ELSE row[c]]

\* export_to_json: the records, or KeyError for a frame without a required
\* column.
ExportToJson(dict, key) ==
    LET filtered_df == DictGet(dict, key)
    IN IF NoneOrEmpty(filtered_df)
       THEN [raised |-> FALSE, records |-> <<>>]
       ELSE LET df == RenameLon(filtered_df[1])
            IN IF ~(ExportCols \subseteq df.columns)
               THEN [raised |-> TRUE, records |-> <<>>]
               ELSE [raised |-> FALSE,
                     records |-> [i \in 1..Len(df.rows) |-> ExportRecord(df.rows[i])]]

(***************************************************************************)
(* The routes POST /chat/message (send_message), GET /chat/health          *)
(* (check_health) and GET /chat/context (get_context), with the validation *)
(* of their request models.                                                *)
(***************************************************************************)
MonthMin == 100000
MonthMax == 999912
HourMin == 0
HourMax == 23
MessageMaxLength == 500
ContentMaxLength == 10000
HistoryMaxLength == 20

DayTypes == {"weekday", "weekend"}

Roles == {"user", "assistant", "system"}

\* ChatMessage: role a Literal, content of 1..10000 characters; timestamp is
\* an optional int.
ValidChatMessage(m) ==
    /\ m.role \in Roles
    /\ Len(m.content) >= 1 /\ Len(m.content) <= ContentMaxLength

\* DataContext: hour ge=0 le=23, validate_month, day_type a Literal.
ValidDataContext(month, hour, day_type) ==
    /\ hour >= HourMin /\ hour <= HourMax
    /\ MonthMin <= month /\ month <= MonthMax
    /\ day_type \in DayTypes

\* ChatRequest: message of 1..500 characters, a valid context, at most 20
\* history items, each a valid ChatMessage.
ValidChatRequest(r) ==
    /\ Len(r.message) >= 1 /\ Len(r.message) <= MessageMaxLength
    /\ ValidDataContext(r.month, r.hour, r.day_type)
    /\ Len(r.history) <= HistoryMaxLength
    /\ \A i \in 1..Len(r.history) : ValidChatMessage(r.history[i])

NoHttp == [entry |-> "none", month |-> 0, hour |-> 0, day_type |-> "",
           message |-> "", history |-> <<>>]

PendingResponse == [status_code |-> 0, detail |-> "", body |-> <<>>]

\* The request body is parsed into ChatRequest before send_message runs; a
\* body that fails validation is answered 422 and the handler is not entered.
ValidateChatRequest ==
    /\ route_pc = "validate"
    /\ http.entry = "send_message"
    /\ IF ValidChatRequest(http)
       THEN /\ route_pc' = "get_ollama"
            /\ UNCHANGED http_response
       ELSE /\ route_pc' = "done"
            /\ http_response' = [status_code |-> 422, detail |-> "validation_error",
                                 body |-> <<>>]
    /\ UNCHANGED <<model, http, healthVars, chatVars, aggVars, singletonVars>>

\* The query parameters of get_context are bare int, int, str: values of
\* these types enter the handler whatever their range.
ParseContextQuery ==
    /\ route_pc = "validate"
    /\ http.entry = "get_context"
    /\ route_pc' = "get_exporter"
    /\ UNCHANGED <<model, http, http_response, healthVars, chatVars, aggVars, singletonVars>>

\* ollama_service = get_ollama_service(), first statement of send_message
\* and of the health route.
RouteGetOllama ==
    /\ route_pc = "get_ollama"
    /\ instances' = instancesAfterGet({"ollama_service"})
    /\ constructed' = constructedAfterGet({"ollama_service"})
    /\ route_pc' = IF http.entry = "send_message" THEN "get_exporter" ELSE "probe"
    /\ UNCHANGED <<model, http, http_response, callers, healthVars, chatVars, aggVars>>

\* data_exporter = get_data_exporter(), in send_message and in get_context.
RouteGetExporter ==
    /\ route_pc = "get_exporter"
    /\ instances' = instancesAfterGet({"data_exporter"})
    /\ constructed' = constructedAfterGet({"data_exporter"})
    /\ route_pc' = IF http.entry = "send_message" THEN "probe" ELSE "context"
    /\ UNCHANGED <<model, http, http_response, callers, healthVars, chatVars, aggVars>>

\* Mutant of SendProbe: the probe's status is not looked at.
SendProbeUnchecked ==
    /\ route_pc = "probe"
    /\ http.entry = "send_message"
    /\ health' = HealthResult(model, engine)
    /\ route_pc' = "aggregate"
    /\ UNCHANGED http_response
    /\ UNCHANGED <<model, engine, http, chatVars, aggVars, singletonVars>>

\* send_message, lines 50-56: check_health has waited for the engine and
\* returns; the request ends with 503 unless the probe says connected.
SendProbe ==
    /\ route_pc = "probe"
    /\ http.entry = "send_message"
    /\ health' = HealthResult(model, engine)
    /\ IF health'.status # "connected"
       THEN /\ route_pc' = "done"
            /\ http_response' =
                  [status_code |-> 503,
                   detail |-> "Ollama service is not available. " \o health'.error,
                   body |-> <<>>]
       ELSE /\ route_pc' = "aggregate"
            /\ UNCHANGED http_response
    /\ UNCHANGED <<model, engine, http, chatVars, aggVars, singletonVars>>

\* history = [{"role": msg.role, "content": msg.content} for msg in ...]
HistoryDicts(history) ==
    [i \in 1..Len(history) |->
        [role |-> history[i].role, content |-> history[i].content]]

\* send_message, lines 58-86: summarize the context, build data_context and
\* history, and enter generate_response.
SendAggregate ==
    /\ route_pc = "aggregate"
    /\ agg_key' = <<http.month, http.hour, http.day_type>>
    /\ summary' \in ContextSummary(lookup_dict, <<http.month, http.hour, http.day_type>>)
    /\ request' = [user_message |-> http.message,
                   data_context |-> [month |-> http.month, hour |-> http.hour,
                                     day_type |-> http.day_type,
                                     summary |-> summary'.value],
                   history |-> [given |-> TRUE, turns |-> HistoryDicts(http.history)]]
    /\ pc' = "start"
    /\ route_pc' = "generate"
    /\ UNCHANGED <<model, lookup_dict, messages, dispatched, chat_reply, gen_result,
                   http, http_response, healthVars, singletonVars>>

\* send_message, lines 88-103: the result becomes the ChatResponse; a
\* failure of generate_response becomes 500.
SendRespond ==
    /\ route_pc = "generate"
    /\ pc = "done"
    /\ route_pc' = "done"
    /\ http_response' =
          IF gen_result.outcome = "returned"
          THEN [status_code |-> 200, detail |-> "",
                body |-> <<[response |-> gen_result.response,
                            model |-> gen_result.model,
                            tokens_used |-> gen_result.tokens_used]>>]
          ELSE [status_code |-> 500, detail |-> "Failed to generate response",
                body |-> <<>>]
    /\ UNCHANGED <<model, http, healthVars, chatVars, aggVars, singletonVars>>

\* OLLAMA_MODEL, the configured model name: the default of OllamaService and
\* the model field of every HealthResponse.
DefaultModel == "qwen2.5:7b"

\* ollama_status of HealthResponse is Literal["connected", "disconnected",
\* "error"]: building the response from any other status fails validation.
OllamaStatuses == {"connected", "disconnected", "error"}

\* The HealthResponse of the health route for a probe result h: the one of
\* the try block, or the one of the except block when that fails validation.
HealthResponseFor(h) ==
    IF h.status \in OllamaStatuses
    THEN [status |-> IF h.status = "connected" THEN "ok" ELSE "degraded",
          ollama_status |-> h.status,
          model |-> DefaultModel,
          model_loaded |-> h.model_loaded,
          gpu_available |-> IF h.model_loaded THEN <<h.model_loaded>> ELSE <<>>,
          error |-> h.error]
    ELSE [status |-> "degraded",
          ollama_status |-> "error",
          model |-> DefaultModel,
          model_loaded |-> FALSE,
          gpu_available |-> <<>>,
          error |-> "validation_error"]

\* The route check_health, lines 116-144: check_health of the service has
\* waited for the engine and returns; the answer is always 200.
route_check_health ==
    /\ route_pc = "probe"
    /\ http.entry = "check_health"
    /\ health' = HealthResult(model, engine)
    /\ http_response' = [status_code |-> 200, detail |-> "",
                         body |-> <<HealthResponseFor(health')>>]
    /\ route_pc' = "done"
    /\ UNCHANGED <<model, engine, http, chatVars, aggVars, singletonVars>>

\* get_context, lines 165-199: summarize, export, answer with the metadata
\* and the first 50 records; any failure becomes 500.
get_context ==
    /\ route_pc = "context"
    /\ agg_key' = <<http.month, http.hour, http.day_type>>
    /\ summary' \in ContextSummary(lookup_dict, <<http.month, http.hour, http.day_type>>)
    /\ LET data_records == ExportToJson(lookup_dict, <<http.month, http.hour, http.day_type>>)
           total_records == Len(data_records.records)
       IN http_response' =
             IF data_records.raised
             THEN [status_code |-> 500, detail |-> "Failed to retrieve context",
                   body |-> <<>>]
             ELSE [status_code |-> 200, detail |-> "",
                   body |-> <<[metadata |->
                                  [total_records |-> summary'.value.total_records,
                                   query |-> <<http.month, http.hour, http.day_type>>],
                               sample_data |->
                                  SubSeq(data_records.records, 1, Min(SampleCap, total_records)),
                               note |-> IF total_records > SampleCap
                                        THEN "Showing 50 of " \o ToString(total_records)
                                                 \o " records"
                                        ELSE "None"]>>]
    /\ route_pc' = "done"
    /\ UNCHANGED <<model, lookup_dict, http, healthVars, chatVars, singletonVars>>

(***************************************************************************)
(* Requests the routes are checked on.                                     *)
(***************************************************************************)
\* The string of n copies of c.
RECURSIVE Repeat(_, _)
Repeat(c, n) ==
    IF n = 0 THEN ""
    ELSE IF n % 2 = 1 THEN c \o Repeat(c, n - 1)
    ELSE LET h == Repeat(c, n \div 2) IN h \o h

RouteMonths == {99999, 100000, 100001, 202412, 999912, 999913}
RouteHours == {-1, 0, 8, 23, 24}
RouteDayTypes == {"weekday", "holiday"}
RouteMessages == {"which hour is busiest?", "", Repeat("m", MessageMaxLength + 1)}

\* A history item as the request carries it.
ChatMessage(role, content) == [role |-> role, content |-> content, timestamp |-> <<>>]

\* No history, one turn, too many turns, and one turn that is no ChatMessage:
\* an unknown role, an empty content, an oversized content.
RouteHistories ==
    {[i \in 1..n |-> ChatMessage(IF i % 2 = 1 THEN "user" ELSE "assistant",
                                 "turn " \o ToString(i))] :
        n \in {0, 1, HistoryMaxLength + 1}}
    \cup {<<ChatMessage("tool", "turn 1")>>,
          <<ChatMessage("user", "")>>,
          <<ChatMessage("user", Repeat("c", ContentMaxLength + 1))>>}

HttpRequests ==
    [entry : {"send_message"}, month : RouteMonths, hour : RouteHours,
     day_type : RouteDayTypes, message : RouteMessages, history : RouteHistories]
    \cup [entry : {"get_context"}, month : RouteMonths, hour : RouteHours,
          day_type : RouteDayTypes, message : {""}, history : {<<>>}]
    \cup {[NoHttp EXCEPT !.entry = "check_health"]}

\* The server: unreachable, reachable with the model, reachable without it.
RouteEngines ==
    {[up |-> FALSE, shape |-> "ListResponse", manifest |-> <<>>],
     [up |-> TRUE, shape |-> "ListResponse", manifest |-> <<"qwen2.5:7b">>],
     [up |-> TRUE, shape |-> "dict_name", manifest |-> <<"llama3:8b">>]}

\* The cache: one row, two rows (a 'lon' frame with a missing cell), or one
\* row of a frame without the dwell-time columns.
RouteFrames ==
    {MakeFrame(FullSchema("lng"),
               <<<<Fl(2), <<Fl(1), Fl(1), Fl(0)>>, <<Fl(60), Fl(40)>>, UniformAges>>>>),
     MakeFrame(FullSchema("lon"),
               <<<<Fl(1), <<NaN, Fl(0), Fl(1)>>, <<Fl(60), Fl(40)>>, UniformAges>>,
                 <<Fl(2), <<Fl(1), Fl(1), Fl(0)>>, <<Fl(30), Fl(70)>>, YoungAges>>>>),
     MakeFrame(FullSchema("lng") \ DurationCols,
               <<<<Fl(1), <<Fl(0), Fl(0), Fl(0)>>, <<Fl(60), Fl(40)>>, UniformAges>>>>)}

(***************************************************************************)
(* Specifications.                                                         *)
(***************************************************************************)
IdleEngine == [up |-> TRUE, shape |-> "ListResponse", manifest |-> <<DefaultModel>>]

ChatIdle ==
    /\ request = NoRequest
    /\ pc = "idle"
    /\ messages = <<>>
    /\ dispatched = <<>>
    /\ chat_reply = NoReply
    /\ gen_result = PendingResult

HealthIdle ==
    /\ engine = IdleEngine
    /\ health = NotCalledHealth

AggIdle ==
    /\ lookup_dict = <<>>
    /\ agg_key = CachedKey
    /\ summary = NotCalledSummary

RouteIdle ==
    /\ http = NoHttp
    /\ route_pc = "idle"
    /\ http_response = PendingResponse

SingletonIdle ==
    /\ instances = NoInstances
    /\ constructed = NoneConstructed
    /\ callers = [t \in 1..MaxCallers |-> IdleCaller]

\* generate_response is entered with any request.
InitChat ==
    /\ model = DefaultModel
    /\ request \in Requests
    /\ pc = "start"
    /\ messages = <<>>
    /\ dispatched = <<>>
    /\ chat_reply = NoReply
    /\ gen_result = PendingResult
    /\ HealthIdle
    /\ AggIdle
    /\ RouteIdle
    /\ SingletonIdle

NextChat == AssembleMessages \/ ChatCall \/ Normalize \/ RaiseFailure

SpecChat == InitChat /\ [][NextChat]_vars

\* check_health is called against any server behaviour.
Engines ==
    {[up |-> FALSE, shape |-> "ListResponse", manifest |-> <<>>]}
    \cup {e \in [up : {TRUE}, shape : ListShapes, manifest : SeqUpTo(ModelNames, MaxManifest)] :
            e.shape = "dict_no_models" => e.manifest = <<>>}

InitHealth ==
    /\ model \in ModelNames
    /\ engine \in Engines
    /\ health = NotCalledHealth
    /\ ChatIdle
    /\ AggIdle
    /\ RouteIdle
    /\ SingletonIdle

NextHealth == check_health

SpecHealth == InitHealth /\ [][NextHealth]_vars

\* get_context_summary is called on any cache content.
InitAgg(frames) ==
    /\ model = DefaultModel
    /\ lookup_dict \in Caches(frames)
    /\ agg_key = CachedKey
    /\ summary = NotCalledSummary
    /\ ChatIdle
    /\ HealthIdle
    /\ RouteIdle
    /\ SingletonIdle

NextAgg == \E key \in QueryKeys : get_context_summary(key[1], key[2], key[3])

InitRank == InitAgg(RankFrames)
SpecRank == InitRank /\ [][NextAgg]_vars

InitDur == InitAgg(DurFrames)
SpecDur == InitDur /\ [][NextAgg]_vars

InitDemog == InitAgg(DemogFrames)
SpecDemog == InitDemog /\ [][NextAgg]_vars

\* A route serves any request, in a fresh process or one whose services
\* exist, against any server and cache.
InitRoute ==
    /\ model = DefaultModel
    /\ http \in HttpRequests
    /\ route_pc = IF http.entry = "check_health" THEN "get_ollama" ELSE "validate"
    /\ http_response = PendingResponse
    /\ engine \in RouteEngines
    /\ health = NotCalledHealth
    /\ lookup_dict \in Caches(RouteFrames)
    /\ agg_key = CachedKey
    /\ summary = NotCalledSummary
    /\ ChatIdle
    /\ \E n \in {0, 1} :
          /\ instances = [s \in Services |-> IF n = 0 THEN <<>> ELSE <<1>>]
          /\ constructed = [s \in Services |-> n]
    /\ callers = [t \in 1..MaxCallers |-> IdleCaller]

NextRoute ==
    \/ ValidateChatRequest
    \/ ParseContextQuery
    \/ RouteGetOllama
    \/ RouteGetExporter
    \/ SendProbe
    \/ SendAggregate
    \/ NextChat
    \/ SendRespond
    \/ route_check_health
    \/ get_context

SpecRoute == InitRoute /\ [][NextRoute]_vars

\* MaxCallers threads call the getters of a fresh process concurrently.
InitSingleton ==
    /\ model = DefaultModel
    /\ instances = NoInstances
    /\ constructed = NoneConstructed
    /\ callers \in [1..MaxCallers -> {Caller(s) : s \in Services}]
    /\ ChatIdle
    /\ HealthIdle
    /\ AggIdle
    /\ RouteIdle

NextSingleton ==
    \E t \in 1..MaxCallers :
        CheckNone(t) \/ Construct(t) \/ StoreGlobal(t) \/ ReturnGlobal(t)

SpecSingleton == InitSingleton /\ [][NextSingleton]_vars

\* Any of the entry points.
Init == InitChat \/ InitHealth \/ InitRank \/ InitDur \/ InitDemog
           \/ InitRoute \/ InitSingleton
Next == NextChat \/ NextHealth \/ NextAgg \/ NextRoute \/ NextSingleton
Spec == Init /\ [][Next]_vars


(***************************************************************************)
(* Properties of generate_response (SpecChat).                             *)
(***************************************************************************)
NewUserTurn == [role |-> "user", content |-> request.user_message]

\* A message list for the current request: the system message, the last
\* min(20, n) history turns in their order, the new user turn.
AssembledInOrder(msgs) ==
    LET h == request.history.turns
        n == Len(h)
        k == Min(20, n)
    IN /\ Len(msgs) = k + 2
       /\ msgs[1].role = "system"
       /\ msgs[1].content = build_system_prompt(request.data_context)
       /\ \A i \in 1..k : msgs[1 + i] = h[n - k + i]
       /\ msgs[Len(msgs)] = NewUserTurn

\* C1 (as claimed): every message list dispatched to the engine is one system
\* message, then the last min(20, n) history turns in their original order,
\* then the new user turn, and never holds more than 21 messages.
C1_Original ==
    \A d \in Range(dispatched) :
        AssembledInOrder(d.messages) /\ Len(d.messages) <= 21

\* C1 (amended): every message list dispatched to the engine is one system
\* message, then the last min(20, n) history turns in their original order,
\* then the new user turn; it never holds more than 22 messages (1 + 20 + 1),
\* only the oldest turns are cut and the new user turn is always last.
C1_DispatchedMessages ==
    \A d \in Range(dispatched) :
        AssembledInOrder(d.messages) /\ Len(d.messages) <= 22

\* C1 witness: a history longer than the window was cut and dispatched.
C1_Witness ==
    /\ Len(dispatched) = 1
    /\ Len(request.history.turns) > 20
    /\ Len(dispatched[1].messages) = 22
    /\ dispatched[1].messages[2] = request.history.turns[Len(request.history.turns) - 19]

\* C2: a request calls client.chat exactly once: never twice, once by the
\* time the request has ended, and a failed call ends the request with the
\* raised failure, not with a result.
C2_SingleDispatch ==
    /\ Len(dispatched) <= 1
    /\ (pc \in {"normalize", "except", "done"} => Len(dispatched) = 1)
    /\ (pc = "done" /\ chat_reply.kind = "error" => gen_result.outcome = "raised")
    /\ (chat_reply.kind = "error" => gen_result.outcome # "returned")

\* C2 witness: the single call failed and the request ended raising.
C2_Witness ==
    /\ pc = "done"
    /\ chat_reply.kind = "error"
    /\ Len(dispatched) = 1
    /\ gen_result.outcome = "raised"

\* A counter as the claim counts it: absent or unset is 0.
CountOrZero(c) == IF c.st = "int" THEN c.n ELSE 0

\* C3 (as claimed): for either response shape and any combination of the two
\* counters being present, absent or unset, the request succeeds with
\* tokens_used = eval_count + prompt_eval_count, a missing counter being 0.
C3_TokensUsed ==
    (pc = "done" /\ chat_reply.kind \in {"object", "dict"})
        => /\ gen_result.outcome = "returned"
           /\ gen_result.tokens_used =
                 CountOrZero(chat_reply.eval_count) + CountOrZero(chat_reply.prompt_eval_count)

(***************************************************************************)
(* Properties of check_health (SpecHealth).                                *)
(***************************************************************************)
\* C4: check_health always returns one of the three statuses: connected
\* with model_loaded exactly when the manifest query succeeds and the
\* configured model is in the server's manifest, degraded without
\* model_loaded when it succeeds and the model is not there, disconnected
\* without model_loaded and with an error when the query fails.
C4_HealthStatus ==
    health.status # "not_called" =>
        LET present == model \in Range(engine.manifest)
        IN /\ health.status \in {"connected", "degraded", "disconnected"}
           /\ (health.status = "connected") <=> (engine.up /\ present)
           /\ health.model_loaded <=> (engine.up /\ present)
           /\ (engine.up /\ ~present) => health.status = "degraded"
           /\ ~engine.up => (health.status = "disconnected" /\ health.error # NoError)

\* C4 witness: the manifest query failed and the probe returned disconnected.
C4_Witness ==
    /\ ~engine.up
    /\ health.status = "disconnected"
    /\ ~health.model_loaded
    /\ health.error = "cannot_connect"


(***************************************************************************)
(* Properties of get_context_summary (SpecRank, SpecDur, SpecDemog).       *)
(***************************************************************************)
Returned == summary.outcome = "returned"

\* The rows the cache holds for the key of the call (none for a missing key).
QueriedRows ==
    IF agg_key \in DOMAIN lookup_dict THEN lookup_dict[agg_key].rows ELSE <<>>

\* A cell as the claims count it: a missing cell or column is 0.
Cell(row, col) ==
    IF col \in DOMAIN row /\ ~row[col].nan THEN IntValue(row[col]) ELSE 0

\* The sum of a column over rows 1..k, and its sum weighted by total_users.
RECURSIVE CellSum(_, _, _)
CellSum(rows, k, col) ==
    IF k = 0 THEN 0 ELSE CellSum(rows, k - 1, col) + Cell(rows[k], col)

RECURSIVE WeightedCellSum(_, _, _)
WeightedCellSum(rows, k, col) ==
    IF k = 0 THEN 0
    ELSE WeightedCellSum(rows, k - 1, col)
            + Cell(rows[k], col) * Cell(rows[k], "avg_total_users")

\* x = y as floats compare: NaN equals nothing.
FEq(x, y) == ~x.nan /\ ~y.nan /\ x = y

\* C5: a key whose row set is missing or empty gets, without failure, the
\* canonical summary: no records, 0.0 users, 0.0 in all three dwell-time
\* values, both gender percentages and all ten age percentages, and no top
\* locations.
C5_EmptySummary ==
    (summary.outcome # "not_called" /\ QueriedRows = <<>>)
        => /\ summary.outcome = "returned"
           /\ summary.value.total_records = 0
           /\ summary.value.total_users = Fl(0)
           /\ summary.value.duration_distribution =
                 [under_10min |-> Fl(0), min_10_30 |-> Fl(0), over_30min |-> Fl(0)]
           /\ summary.value.gender_distribution = [male_pct |-> Fl(0), female_pct |-> Fl(0)]
           /\ DOMAIN summary.value.age_distribution = AgeCols
           /\ Cardinality(DOMAIN summary.value.age_distribution) = 10
           /\ \A c \in AgeCols : summary.value.age_distribution[c] = Fl(0)
           /\ summary.value.top_locations = <<>>

\* C5 witness: a key the cache does not hold was summarized while the cache
\* holds rows under another key.
C5_Witness ==
    /\ Returned
    /\ agg_key \notin DOMAIN lookup_dict
    /\ lookup_dict # <<>>
    /\ Len(lookup_dict[CachedKey].rows) > 0
    /\ summary.value.top_locations = <<>>

Reported(col) ==
    CASE col = "sex_1" -> summary.value.gender_distribution.male_pct
      [] col = "sex_2" -> summary.value.gender_distribution.female_pct
      [] OTHER -> summary.value.age_distribution[col]

\* C7: for a non-empty row set, every gender and age percentage is
\* sum(f_i * total_users_i) / sum(total_users_i), as the float nearest to
\* that quotient, when the summed total_users is positive, and exactly 0
\* (never undefined) when it is 0.
C7_WeightedPercentages ==
    (Returned /\ QueriedRows # <<>>) =>
        LET rows == QueriedRows
            total == CellSum(rows, Len(rows), "avg_total_users")
        IN /\ summary.value.total_users = Fl(total)
           /\ \A f \in {"sex_1", "sex_2"} \cup AgeCols :
                 /\ ~Reported(f).nan
                 /\ IF total > 0
                    THEN Reported(f) = FDiv(Fl(WeightedCellSum(rows, Len(rows), f)), Fl(total))
                    ELSE Reported(f) = Fl(0)

\* C7 witness: two rows of weights 1 and 2 whose age_1 cells are 5 and 10
\* average to 25/3.
C7_Witness ==
    /\ Returned
    /\ Len(QueriedRows) = 2
    /\ summary.value.total_users = Fl(3)
    /\ summary.value.age_distribution["age_1"] = Rat(25, 3)

\* The sum of the three dwell-time components of the summary.
DurationSum ==
    FAdd(FAdd(summary.value.duration_distribution.under_10min,
              summary.value.duration_distribution.min_10_30),
         summary.value.duration_distribution.over_30min)

\* A row whose dwell-time buckets add up to its total_users.
BucketsAddUp(row) ==
    Cell(row, "avg_users_under_10min") + Cell(row, "avg_users_10_30min")
        + Cell(row, "avg_users_over_30min") = Cell(row, "avg_total_users")

\* C8 (as claimed): for every non-empty row set the three
\* duration_distribution components sum to the returned total_users.
C8_Original ==
    (Returned /\ QueriedRows # <<>>) => DurationSum = summary.value.total_users

\* C8 (amended): for every non-empty row set in which each row's three
\* dwell-time buckets add up to that row's total_users (a missing cell or
\* column counting as 0), the three duration_distribution components sum to
\* the returned total_users.
C8_DurationSum ==
    (Returned /\ QueriedRows # <<>>
        /\ \A i \in 1..Len(QueriedRows) : BucketsAddUp(QueriedRows[i]))
        => DurationSum = summary.value.total_users

\* C8 witness: two rows, 1 user (1/0/0) and 2 users (one bucket cell
\* missing), give total_users 3 and buckets that sum to 3.
C8_Witness ==
    /\ Returned
    /\ Len(QueriedRows) = 2
    /\ \A i \in 1..2 : BucketsAddUp(QueriedRows[i])
    /\ DurationCols \subseteq lookup_dict[agg_key].columns
    /\ \E i \in 1..2 : QueriedRows[i]["avg_users_under_10min"].nan
    /\ summary.value.total_users = Fl(3)
    /\ DurationSum = Fl(3)

\* The sum of the ten age percentages of the summary.
AgeOrder == <<"age_1", "age_2", "age_3", "age_4", "age_5",
              "age_6", "age_7", "age_8", "age_9", "age_other">>

RECURSIVE AgePctSum(_)
AgePctSum(k) ==
    IF k = 0 THEN Fl(0)
    ELSE FAdd(AgePctSum(k - 1), summary.value.age_distribution[AgeOrder[k]])

RECURSIVE AgeCellSum(_, _)
AgeCellSum(row, k) ==
    IF k = 0 THEN 0 ELSE AgeCellSum(row, k - 1) + Cell(row, AgeOrder[k])

\* A row whose two gender cells and whose ten age cells each add up to 100.
PercentagesAddUp(row) ==
    /\ Cell(row, "sex_1") + Cell(row, "sex_2") = 100
    /\ AgeCellSum(row, 10) = 100

\* Equal up to rounding: x and y differ by at most 2^-40, which is 64 units
\* in the last place of a float near 100 and more than the ten roundings of
\* the percentages and the nine of their sum can add up to.
RoundingSlack == Normal(<<1>>, -40)

NearlyEqual(x, y) ==
    /\ ~x.nan
    /\ ~y.nan
    /\ ~FGt(x, FAdd(y, RoundingSlack))
    /\ ~FGt(y, FAdd(x, RoundingSlack))

\* C9 (as claimed): whenever the returned total_users is positive,
\* male_pct + female_pct is 100 and the ten age percentages sum to 100, up
\* to rounding.
C9_Original ==
    (Returned /\ FGt(summary.value.total_users, Fl(0)))
        => /\ NearlyEqual(FAdd(summary.value.gender_distribution.male_pct,
                               summary.value.gender_distribution.female_pct), Fl(100))
           /\ NearlyEqual(AgePctSum(10), Fl(100))

\* C9 (amended): whenever the returned total_users is positive and every
\* row with a positive total_users has gender cells adding up to 100 and age
\* cells adding up to 100 (a missing cell or column counting as 0),
\* male_pct + female_pct is 100 and the ten age percentages sum to 100, up
\* to rounding.
C9_PercentageSums ==
    (Returned /\ FGt(summary.value.total_users, Fl(0))
        /\ \A i \in 1..Len(QueriedRows) :
              Cell(QueriedRows[i], "avg_total_users") > 0 => PercentagesAddUp(QueriedRows[i]))
        => /\ NearlyEqual(FAdd(summary.value.gender_distribution.male_pct,
                               summary.value.gender_distribution.female_pct), Fl(100))
           /\ NearlyEqual(AgePctSum(10), Fl(100))

\* C9 witness: rows of weights 1 (60/40, young) and 2 (30/70, uniform)
\* give 40 % male, 60 % female and age percentages that are not whole and
\* whose float sum is near 100 without being 100.
C9_Witness ==
    /\ Returned
    /\ Len(QueriedRows) = 2
    /\ \A i \in 1..2 : PercentagesAddUp(QueriedRows[i])
    /\ summary.value.total_users = Fl(3)
    /\ summary.value.gender_distribution.male_pct = Fl(40)
    /\ summary.value.gender_distribution.female_pct = Fl(60)
    /\ summary.value.age_distribution["age_2"] = Fl(25)
    /\ summary.value.age_distribution["age_1"] = Rat(25, 3)
    /\ AgePctSum(10) # Fl(100)

\* C10 (as claimed): a missing numeric cell counts as 0.0 in the totals, and
\* no value of the summary is NaN, the total_users and dwell-time fields of
\* every top_locations entry included.
C10_NoNaN ==
    (Returned /\ QueriedRows # <<>>) =>
        LET rows == QueriedRows
            v == summary.value
            n == Len(rows)
        IN /\ v.total_users = Fl(CellSum(rows, n, "avg_total_users"))
           /\ v.duration_distribution.under_10min = Fl(CellSum(rows, n, "avg_users_under_10min"))
           /\ v.duration_distribution.min_10_30 = Fl(CellSum(rows, n, "avg_users_10_30min"))
           /\ v.duration_distribution.over_30min = Fl(CellSum(rows, n, "avg_users_over_30min"))
           /\ ~v.gender_distribution.male_pct.nan
           /\ ~v.gender_distribution.female_pct.nan
           /\ \A c \in AgeCols : ~v.age_distribution[c].nan
           /\ \A k \in 1..Len(v.top_locations) :
                 /\ ~v.top_locations[k].total_users.nan
                 /\ ~v.top_locations[k].under_10min.nan
                 /\ ~v.top_locations[k]["10_30min"].nan
                 /\ ~v.top_locations[k].over_30min.nan

(***************************************************************************)
(* Properties of the routes (SpecRoute).                                   *)
(***************************************************************************)
\* The FilterKey of the request, and the range the claim gives it.
FilterKey == <<http.month, http.hour, http.day_type>>

FilterKeyInRange ==
    /\ http.month >= 100001 /\ http.month <= 999912
    /\ http.hour >= 0 /\ http.hour <= 23

\* C11 (as claimed): on both entry points, a request whose month is outside
\* [100001, 999912] or whose hour is outside [0, 23] ends with a validation
\* error, and neither the health probe, nor a cache lookup, nor a chat
\* dispatch happens for it.
C11_Validation ==
    (http.entry \in {"send_message", "get_context"} /\ ~FilterKeyInRange)
        => /\ (route_pc = "done" => http_response.status_code = 422)
           /\ health.status = "not_called"
           /\ summary.outcome = "not_called"
           /\ dispatched = <<>>

\* An empty history, and a FilterKey the cache holds exactly one row for.
EmptyHistoryOneRow ==
    /\ http.entry = "send_message"
    /\ http.history = <<>>
    /\ FilterKey \in DOMAIN lookup_dict
    /\ Len(lookup_dict[FilterKey].rows) = 1

\* The request has got past the client.chat call.
PastDispatch == route_pc \in {"generate", "done"} /\ pc \in {"normalize", "except", "done"}

\* C12 (as claimed): with an empty history and a FilterKey matching one row,
\* send_message dispatches one message list, of exactly 3 messages.
C12_Original ==
    EmptyHistoryOneRow
        => /\ \A d \in Range(dispatched) : Len(d.messages) = 3
           /\ (PastDispatch => Len(dispatched) = 1)

\* C12 (amended): with an empty history and a FilterKey matching one row,
\* send_message dispatches one message list, of exactly 2 messages: the
\* system message built from that row's summary, then the new user turn.
C12_EmptyHistoryDispatch ==
    EmptyHistoryOneRow
        => /\ \A d \in Range(dispatched) :
                 /\ Len(d.messages) = 2
                 /\ d.messages[1].role = "system"
                 /\ d.messages[1].content =
                       build_system_prompt([month |-> http.month, hour |-> http.hour,
                                            day_type |-> http.day_type,
                                            summary |-> summary.value])
                 /\ d.messages[2] = [role |-> "user", content |-> http.message]
           /\ (dispatched # <<>> => summary.value.total_records = 1)
           /\ (PastDispatch => Len(dispatched) = 1)

\* C12 witness: such a request was answered 200 after dispatching the system
\* message and the user turn.
C12_Witness ==
    /\ EmptyHistoryOneRow
    /\ route_pc = "done"
    /\ http_response.status_code = 200
    /\ Len(dispatched) = 1
    /\ Len(dispatched[1].messages) = 2
    /\ dispatched[1].messages[2].content = "which hour is busiest?"

\* C13: in send_message the cache lookup, generate_response and the chat
\* dispatch happen only after a probe that returned connected; a probe that
\* returned anything else ends the request with 503 carrying the probe's
\* error, without a cache lookup or a chat dispatch.
C13_ProbeFirst ==
    http.entry = "send_message"
        => /\ (summary.outcome # "not_called" \/ pc # "idle" \/ dispatched # <<>>)
                 => health.status = "connected"
           /\ (route_pc \in {"aggregate", "generate"}
                  \/ http_response.status_code \in {200, 500})
                 => health.status = "connected"
           /\ health.status \in {"degraded", "disconnected"}
                 => /\ route_pc = "done"
                    /\ http_response.status_code = 503
                    /\ health.error # NoError
                    /\ http_response.detail =
                          "Ollama service is not available. " \o health.error
                    /\ summary.outcome = "not_called"
                    /\ pc = "idle"
                    /\ dispatched = <<>>
           /\ http_response.status_code = 503
                 => health.status \in {"degraded", "disconnected"}

\* C13 witness: the server is up without the configured model; the request
\* ended 503 with the probe's error and nothing else was called.
C13_Witness ==
    /\ http.entry = "send_message"
    /\ engine.up
    /\ health.status = "degraded"
    /\ route_pc = "done"
    /\ http_response.status_code = 503
    /\ http_response.detail = "Ollama service is not available. model_not_found"
    /\ summary.outcome = "not_called"
    /\ dispatched = <<>>

(***************************************************************************)
(* Properties of the service getters (SpecSingleton).                      *)
(***************************************************************************)
\* C14 (as claimed): under any interleaving of the callers, each service
\* class is constructed at most once, and all callers of a getter that have
\* returned hold the same instance.
C14_SingleInstance ==
    /\ \A s \in Services : constructed[s] <= 1
    /\ \A t, u \in 1..MaxCallers :
          (callers[t].pc = "done" /\ callers[u].pc = "done"
              /\ callers[t].service = callers[u].service)
             => /\ callers[t].got # <<>>
                /\ callers[t].got = callers[u].got

=============================================================================
